---- MODULE Spec2Model ----
(***************************************************************************)
(* A model of the netcup CCP API client (src/netcup.go): the Client, the   *)
(* request envelope dispatch `request`, and the four operations Login,     *)
(* Logout, GetRecords and UpdateRecords.  The HTTP server is the           *)
(* environment: every POST is answered by a reply drawn from Replies       *)
(* (a transport failure, a read failure, or a body).  JSON texts are       *)
(* modelled as JSON values (a kind tag and the kind's content), and        *)
(* encoding/json's Marshal and Unmarshal by what they do on those values   *)
(* for the Go types of the source.  Strings are valid text and object keys *)
(* are spelled as the json tags spell them.                                *)
(***************************************************************************)
EXTENDS Integers, Sequences, FiniteSets, TLC

(***************************************************************************)
(* Bounds of the model.                                                    *)
(***************************************************************************)
\* operations invoked on one client in one behaviour
MaxCalls == 3

(***************************************************************************)
(* JSON values.                                                            *)
(***************************************************************************)
JNull == [kind |-> "null"]
JStr(s) == [kind |-> "string", s |-> s]
JNum(n) == [kind |-> "number", n |-> n]
JBool(b) == [kind |-> "bool", b |-> b]
JArr(items) == [kind |-> "array", items |-> items]
JObj(fields) == [kind |-> "object", fields |-> fields]
\* a text that is not JSON at all
JInvalid == [kind |-> "invalid"]
\* marks a key left out of an object under construction
JAbsent == [kind |-> "absent"]

EmptyMap == [k \in {} |-> JNull]
Put(m, k, v) == [x \in DOMAIN m \cup {k} |-> IF x = k THEN v ELSE m[x]]
\* an object made of the keys of f whose value is not JAbsent
Obj(f) == JObj([k \in {x \in DOMAIN f : f[x] # JAbsent} |-> f[k]])
Has(o, k) == k \in DOMAIN o.fields

(***************************************************************************)
(* Go values: Record, []Record (nil and empty are different slices), and   *)
(* the nil *json.RawMessage.                                               *)
(***************************************************************************)
Record(id, hostname, type, priority, destination, deleterecord, state) ==
    [ID |-> id, Hostname |-> hostname, Type |-> type, Priority |-> priority,
     Destination |-> destination, DeleteRecord |-> deleterecord, State |-> state]
ZeroRecord == Record("", "", "", "", "", FALSE, "")
NilSlice == [isNil |-> TRUE, elems |-> <<>>]
Slice(elems) == [isNil |-> FALSE, elems |-> elems]
NilPtr == [kind |-> "nil"]

(***************************************************************************)
(* encoding/json on the types of the source.                               *)
(***************************************************************************)
\* Marshal of a Record: its seven tagged fields, all always present
MarshalRecord(r) ==
    JObj([id |-> JStr(r.ID), hostname |-> JStr(r.Hostname), type |-> JStr(r.Type),
          priority |-> JStr(r.Priority), destination |-> JStr(r.Destination),
          deleterecord |-> JBool(r.DeleteRecord), state |-> JStr(r.State)])
\* Marshal of a []Record: null for the nil slice, an array otherwise
MarshalRecords(sl) ==
    IF sl.isNil THEN JNull
    ELSE JArr([i \in 1..Len(sl.elems) |-> MarshalRecord(sl.elems[i])])

\* Unmarshal of object o's key k into a Go field of the JSON kind `kind`:
\* an absent key or a null leaves the field alone, another kind is a type error
FieldOK(o, k, kind) == ~Has(o, k) \/ o.fields[k].kind \in {kind, "null"}
StringField(o, k) ==
    IF Has(o, k) /\ o.fields[k].kind = "string" THEN o.fields[k].s ELSE ""
BoolField(o, k) ==
    IF Has(o, k) /\ o.fields[k].kind = "bool" THEN o.fields[k].b ELSE FALSE
IntField(o, k) ==
    IF Has(o, k) /\ o.fields[k].kind = "number" THEN o.fields[k].n ELSE 0

RecordStringKeys == {"id", "hostname", "type", "priority", "destination", "state"}
\* Unmarshal into a Record
UnmarshalRecord(v) ==
    IF v.kind = "null" THEN [ok |-> TRUE, val |-> ZeroRecord]
    ELSE IF v.kind # "object" THEN [ok |-> FALSE, val |-> ZeroRecord]
    ELSE [ok |-> /\ \A k \in RecordStringKeys : FieldOK(v, k, "string")
                 /\ FieldOK(v, "deleterecord", "bool"),
          val |-> Record(StringField(v, "id"), StringField(v, "hostname"),
                         StringField(v, "type"), StringField(v, "priority"),
                         StringField(v, "destination"), BoolField(v, "deleterecord"),
                         StringField(v, "state"))]
\* Unmarshal into a []Record
UnmarshalRecords(v) ==
    IF v.kind = "null" THEN [ok |-> TRUE, val |-> NilSlice]
    ELSE IF v.kind # "array" THEN [ok |-> FALSE, val |-> NilSlice]
    ELSE [ok |-> \A i \in 1..Len(v.items) : UnmarshalRecord(v.items[i]).ok,
          val |-> Slice([i \in 1..Len(v.items) |-> UnmarshalRecord(v.items[i]).val])]

\* Unmarshal of a response body into a responseBody struct (ResponseData is a
\* *json.RawMessage: nil when the key is absent or null, the raw value otherwise)
EnvelopeStringKeys ==
    {"serverrequestid", "clientrequestid", "action", "status", "shortmessage",
     "longmessage"}
ZeroResponseBody == [ok |-> TRUE, StatusCode |-> 0, LongMessage |-> "", ResponseData |-> NilPtr]
UnmarshalResponseBody(body) ==
    IF body.kind = "null" THEN ZeroResponseBody
    ELSE IF body.kind # "object" THEN [ZeroResponseBody EXCEPT !.ok = FALSE]
    ELSE [ok |-> /\ \A k \in EnvelopeStringKeys : FieldOK(body, k, "string")
                 /\ FieldOK(body, "statuscode", "number"),
          StatusCode |-> IntField(body, "statuscode"),
          LongMessage |-> StringField(body, "longmessage"),
          ResponseData |-> IF Has(body, "responsedata") /\ body.fields["responsedata"].kind # "null"
                           THEN body.fields["responsedata"] ELSE NilPtr]

\* Unmarshal of a raw payload into struct{APISessionID string `json:"apisessionid"`}
UnmarshalSessionData(raw) ==
    IF raw.kind = "null" THEN [ok |-> TRUE, APISessionID |-> ""]
    ELSE IF raw.kind # "object" THEN [ok |-> FALSE, APISessionID |-> ""]
    ELSE [ok |-> FieldOK(raw, "apisessionid", "string"),
          APISessionID |-> StringField(raw, "apisessionid")]
\* Unmarshal of a raw payload into struct{DNSRecords []Record `json:"dnsrecords"`}
UnmarshalRecordsData(raw) ==
    IF raw.kind = "null" THEN [ok |-> TRUE, DNSRecords |-> NilSlice]
    ELSE IF raw.kind # "object" THEN [ok |-> FALSE, DNSRecords |-> NilSlice]
    ELSE IF ~Has(raw, "dnsrecords") THEN [ok |-> TRUE, DNSRecords |-> NilSlice]
    ELSE [ok |-> UnmarshalRecords(raw.fields["dnsrecords"]).ok,
          DNSRecords |-> UnmarshalRecords(raw.fields["dnsrecords"]).val]

(***************************************************************************)
(* The operations' parameters (the anonymous structs of the source) and    *)
(* their Marshal.                                                          *)
(***************************************************************************)
NilParam == [type |-> "nil"]
LoginParam(apiPassword) == [type |-> "login", APIPassword |-> apiPassword]
DomainParam(domainname) == [type |-> "domain", DomainName |-> domainname]
UpdateParam(domainname, recs) ==
    [type |-> "update", DomainName |-> domainname, DNSRecordSet |-> [Records |-> recs]]
MarshalParam(param) ==
    CASE param.type = "login" -> JObj([apipassword |-> JStr(param.APIPassword)])
      [] param.type = "domain" -> JObj([domainname |-> JStr(param.DomainName)])
      [] param.type = "update" ->
            JObj([domainname |-> JStr(param.DomainName),
                  dnsrecordset |-> JObj([dnsrecords |-> MarshalRecords(param.DNSRecordSet.Records)])])

(***************************************************************************)
(* Errors.                                                                 *)
(***************************************************************************)
Err(kind, action, msg) == [kind |-> kind, action |-> action, msg |-> msg]
NoErr == Err("nil", "", "")
ErrNoSession == Err("nosession", "", "")
ErrPost == Err("post", "", "")
ErrRead == Err("read", "", "")
ErrDecode == Err("decode", "", "")
\* fmt.Errorf(`Request "%s" failed: %s`, action, responseBody.LongMessage)
ErrAPI(action, longMessage) == Err("api", action, longMessage)

(***************************************************************************)
(* Request envelope dispatch.                                              *)
(***************************************************************************)
StatusSuccess == 2000

\* faulty variant: logout is let through without a session as well
NoSessionButLogout(sid, action) == sid = "" /\ action \notin {"login", "logout"}

\* the session precondition: every action but login needs a session ID
NoSession(sid, action) == sid = "" /\ action # "login"

\* param flattened to a map[string]interface{} (Marshal, then Unmarshal into
\* the map: the object's keys and values), the empty map for a nil param
ParamMap(param) ==
    IF param = NilParam THEN EmptyMap ELSE MarshalParam(param).fields

\* faulty variant: the session ID is always added, empty or not
CommonParamsAlways(paramMap, cn, key, sid) ==
    Put(Put(Put(paramMap, "customernumber", JNum(cn)), "apikey", JStr(key)),
        "apisessionid", JStr(sid))

\* the common request data added to the map
CommonParams(paramMap, cn, key, sid) ==
    LET m == Put(Put(paramMap, "customernumber", JNum(cn)), "apikey", JStr(key))
    IN  IF sid # "" THEN Put(m, "apisessionid", JStr(sid)) ELSE m

\* faulty variant: every code of the 2xxx range is a success
StatusOKRange(responseBody) ==
    responseBody.StatusCode >= StatusSuccess /\ responseBody.StatusCode < StatusSuccess + 1000

\* the status code that lets a response through
StatusOK(responseBody) == responseBody.StatusCode = StatusSuccess

NoReq == [action |-> "", param |-> EmptyMap]
Returned(posts, req, err, buf) == [posts |-> posts, req |-> req, err |-> err, buf |-> buf]

\* faulty variant: a failed POST is tried a second time
requestRetry(sid, cn, key, action, param, reply) ==
    IF NoSession(sid, action) THEN Returned(0, NoReq, ErrNoSession, NilPtr)
    ELSE LET req == [action |-> action,
                     param |-> CommonParams(ParamMap(param), cn, key, sid)]
             responseBody == UnmarshalResponseBody(reply.body)
         IN  IF reply.kind = "posterr" THEN Returned(2, req, ErrPost, NilPtr)
             ELSE IF reply.kind = "readerr" THEN Returned(1, req, ErrRead, NilPtr)
             ELSE IF ~responseBody.ok THEN Returned(1, req, ErrDecode, NilPtr)
             ELSE IF ~StatusOK(responseBody)
                  THEN Returned(1, req, ErrAPI(action, responseBody.LongMessage), NilPtr)
             ELSE Returned(1, req, NoErr, responseBody.ResponseData)

\* c.request(action, param) of a client with session ID sid, customer number
\* cn and API key `key`, when the POST (if one is made) is answered by reply:
\* the number of POSTs made, the request body sent, and the (buf, err) returned
request(sid, cn, key, action, param, reply) ==
    IF NoSession(sid, action) THEN Returned(0, NoReq, ErrNoSession, NilPtr)
    ELSE LET req == [action |-> action,
                     param |-> CommonParams(ParamMap(param), cn, key, sid)]
             responseBody == UnmarshalResponseBody(reply.body)
         IN  IF reply.kind = "posterr" THEN Returned(1, req, ErrPost, NilPtr)
             ELSE IF reply.kind = "readerr" THEN Returned(1, req, ErrRead, NilPtr)
             ELSE IF ~responseBody.ok THEN Returned(1, req, ErrDecode, NilPtr)
             ELSE IF ~StatusOK(responseBody)
                  THEN Returned(1, req, ErrAPI(action, responseBody.LongMessage), NilPtr)
             ELSE Returned(1, req, NoErr, responseBody.ResponseData)

(***************************************************************************)
(* The four operations as functions of the client's fields and the reply:  *)
(* how the call ends ("ok": returned a nil error, "error": returned err,   *)
(* "panic": nil pointer dereference of *buf), the values returned, and the *)
(* client's sessionID and records afterwards.                              *)
(***************************************************************************)
Outcome(r, result, err, ret, sid, recs) ==
    [posts |-> r.posts, req |-> r.req, result |-> result, err |-> err, ret |-> ret,
     sessionID |-> sid, records |-> recs]

\* faulty variant: a session ID already held is kept
LoginCallKeep(sid, recs, cn, key, apiPassword, reply) ==
    LET r == request(sid, cn, key, "login", LoginParam(apiPassword), reply)
        responseData == UnmarshalSessionData(r.buf)
    IN  IF r.err # NoErr THEN Outcome(r, "error", r.err, NilSlice, sid, recs)
        ELSE IF r.buf = NilPtr THEN Outcome(r, "panic", NoErr, NilSlice, sid, recs)
        ELSE IF ~responseData.ok THEN Outcome(r, "error", ErrDecode, NilSlice, sid, recs)
        ELSE Outcome(r, "ok", NoErr, NilSlice,
                     IF sid = "" THEN responseData.APISessionID ELSE sid, recs)

LoginCall(sid, recs, cn, key, apiPassword, reply) ==
    LET r == request(sid, cn, key, "login", LoginParam(apiPassword), reply)
        responseData == UnmarshalSessionData(r.buf)
    IN  IF r.err # NoErr THEN Outcome(r, "error", r.err, NilSlice, sid, recs)
        ELSE IF r.buf = NilPtr THEN Outcome(r, "panic", NoErr, NilSlice, sid, recs)
        ELSE IF ~responseData.ok THEN Outcome(r, "error", ErrDecode, NilSlice, sid, recs)
        ELSE Outcome(r, "ok", NoErr, NilSlice, responseData.APISessionID, recs)

\* faulty variant: the payload is decoded as the other operations do
LogoutCallDecoding(sid, recs, cn, key, reply) ==
    LET r == request(sid, cn, key, "logout", NilParam, reply)
        responseData == UnmarshalSessionData(r.buf)
    IN  IF r.err # NoErr THEN Outcome(r, "error", r.err, NilSlice, sid, recs)
        ELSE IF r.buf = NilPtr THEN Outcome(r, "panic", NoErr, NilSlice, sid, recs)
        ELSE IF ~responseData.ok THEN Outcome(r, "error", ErrDecode, NilSlice, sid, recs)
        ELSE Outcome(r, "ok", NoErr, NilSlice, "", recs)

\* faulty variant: the session ID is cleared before the error is looked at
LogoutCallClearFirst(sid, recs, cn, key, reply) ==
    LET r == request(sid, cn, key, "logout", NilParam, reply)
    IN  IF r.err # NoErr THEN Outcome(r, "error", r.err, NilSlice, "", recs)
        ELSE Outcome(r, "ok", NoErr, NilSlice, "", recs)

LogoutCall(sid, recs, cn, key, reply) ==
    LET r == request(sid, cn, key, "logout", NilParam, reply)
    IN  IF r.err # NoErr THEN Outcome(r, "error", r.err, NilSlice, sid, recs)
        ELSE Outcome(r, "ok", NoErr, NilSlice, "", recs)

\* faulty variant: the payload is decoded straight into c.records
GetRecordsCallInPlace(sid, recs, cn, key, domainname, reply) ==
    LET r == request(sid, cn, key, "infoDnsRecords", DomainParam(domainname), reply)
        responseData == UnmarshalRecordsData(r.buf)
    IN  IF r.err # NoErr THEN Outcome(r, "error", r.err, NilSlice, sid, recs)
        ELSE IF r.buf = NilPtr THEN Outcome(r, "panic", NoErr, NilSlice, sid, recs)
        ELSE IF ~responseData.ok
             THEN Outcome(r, "error", ErrDecode, NilSlice, sid, responseData.DNSRecords)
        ELSE Outcome(r, "ok", NoErr, responseData.DNSRecords, sid, responseData.DNSRecords)

GetRecordsCall(sid, recs, cn, key, domainname, reply) ==
    LET r == request(sid, cn, key, "infoDnsRecords", DomainParam(domainname), reply)
        responseData == UnmarshalRecordsData(r.buf)
    IN  IF r.err # NoErr THEN Outcome(r, "error", r.err, NilSlice, sid, recs)
        ELSE IF r.buf = NilPtr THEN Outcome(r, "panic", NoErr, NilSlice, sid, recs)
        ELSE IF ~responseData.ok THEN Outcome(r, "error", ErrDecode, NilSlice, sid, recs)
        ELSE Outcome(r, "ok", NoErr, responseData.DNSRecords, sid, responseData.DNSRecords)

\* faulty variant: the records of the reply are appended to the cached ones
UpdateRecordsCallAppend(sid, recs, cn, key, domainname, submitted, reply) ==
    LET r == request(sid, cn, key, "updateDnsRecords", UpdateParam(domainname, submitted), reply)
        responseData == UnmarshalRecordsData(r.buf)
    IN  IF r.err # NoErr THEN Outcome(r, "error", r.err, NilSlice, sid, recs)
        ELSE IF r.buf = NilPtr THEN Outcome(r, "panic", NoErr, NilSlice, sid, recs)
        ELSE IF ~responseData.ok THEN Outcome(r, "error", ErrDecode, NilSlice, sid, recs)
        ELSE Outcome(r, "ok", NoErr, responseData.DNSRecords, sid,
                     Slice(recs.elems \o responseData.DNSRecords.elems))

UpdateRecordsCall(sid, recs, cn, key, domainname, submitted, reply) ==
    LET r == request(sid, cn, key, "updateDnsRecords", UpdateParam(domainname, submitted), reply)
        responseData == UnmarshalRecordsData(r.buf)
    IN  IF r.err # NoErr THEN Outcome(r, "error", r.err, NilSlice, sid, recs)
        ELSE IF r.buf = NilPtr THEN Outcome(r, "panic", NoErr, NilSlice, sid, recs)
        ELSE IF ~responseData.ok THEN Outcome(r, "error", ErrDecode, NilSlice, sid, recs)
        ELSE Outcome(r, "ok", NoErr, responseData.DNSRecords, sid, responseData.DNSRecords)

(***************************************************************************)
(* The inputs the callers and the server draw from.                        *)
(***************************************************************************)
Accounts == {[customerNumber |-> 1234, apiKey |-> "key"],
             [customerNumber |-> 4321, apiKey |-> "otherkey"]}
Passwords == {"password"}
Domains == {"example.com"}
Tokens == {"thisisasessionid", "othersessionid"}

NewTXT == Record("", "@", "TXT", "0", "test", FALSE, "yes")
DeleteA == Record("123451", "@", "A", "0", "127.0.0.1", TRUE, "yes")
\* the record lists a caller submits: nil, empty, one record, two in both orders
Submissions ==
    {NilSlice, Slice(<<>>), Slice(<<NewTXT>>), Slice(<<NewTXT, DeleteA>>),
     Slice(<<DeleteA, NewTXT>>)}

\* the records of a reply: a complete one, and one with keys missing, a null
\* and a key Record does not have
ServerA == MarshalRecord(Record("123451", "@", "A", "0", "127.0.0.1", FALSE, "yes"))
ServerPartial == JObj([hostname |-> JStr("www"), deleterecord |-> JNull, ttl |-> JNum(300)])
ReplyRecordLists ==
    {JArr(<<>>), JArr(<<ServerA>>), JArr(<<ServerA, ServerPartial>>),
     JArr(<<ServerPartial, ServerA>>), JArr(<<ServerA, ServerA>>)}
BadRecordLists == {JStr("none"), JArr(<<ServerA, JObj([id |-> JNum(1)])>>)}

SessionData(v) == JObj([apisessionid |-> v])
RecordsData(v) == JObj([dnsrecords |-> v])
Payloads ==
    {JAbsent, JNull, JStr(""), JObj(EmptyMap)}
    \cup {SessionData(JStr(t)) : t \in Tokens \cup {""}}
    \cup {SessionData(JNum(7))}
    \cup {RecordsData(l) : l \in ReplyRecordLists \cup BadRecordLists \cup {JNull}}

Envelope(statuscode, status, longmessage, responsedata) ==
    Obj([serverrequestid |-> JStr(""), clientrequestid |-> JStr(""), action |-> JStr(""),
         status |-> JStr(status), statuscode |-> statuscode, shortmessage |-> JStr(""),
         longmessage |-> JStr(longmessage), responsedata |-> responsedata])
\* responses that are not a success: another code, a code just off 2000 under
\* the status text "success", no code at all
Failures ==
    {Envelope(JNum(4013), "error", "denied", JStr("")),
     Envelope(JNum(2001), "success", "off by one", SessionData(JStr("othersessionid"))),
     Envelope(JAbsent, "success", "no code", RecordsData(JArr(<<ServerA>>)))}
\* bodies that do not decode as a responseBody
Malformed ==
    {JInvalid, JArr(<<>>),
     Envelope(JStr("2000"), "success", "done", SessionData(JStr("thisisasessionid")))}
Bodies ==
    Malformed \cup Failures \cup {JNull}
    \cup {Envelope(JNum(StatusSuccess), "success", "done", d) : d \in Payloads}
NoReply == [kind |-> "none"]
Replies == {[kind |-> "posterr"], [kind |-> "readerr"]}
           \cup {[kind |-> "body", body |-> b] : b \in Bodies}

(***************************************************************************)
(* State: the Client's fields, and what the transport and the caller saw.  *)
(***************************************************************************)
VARIABLES
    customerNumber,  \* Client.customerNumber
    apiKey,          \* Client.apiKey
    sessionID,       \* Client.sessionID
    records,         \* Client.records
    posts,           \* POSTs the transport was asked to make
    calls,           \* operations invoked
    last             \* the last operation: its inputs, the fields before it,
                     \* the request sent, the reply and how it ended
vars == <<customerNumber, apiKey, sessionID, records, posts, calls, last>>

NoInput == [apiPassword |-> "", domainname |-> "", records |-> NilSlice]
NoCall ==
    [op |-> "none", in |-> NoInput,
     pre |-> [sessionID |-> "", records |-> NilSlice, posts |-> 0],
     req |-> NoReq, reply |-> NoReply, result |-> "none", err |-> NoErr, ret |-> NilSlice]

\* NewClient(customerNumber, apiKey)
Init ==
    /\ \E a \in Accounts : customerNumber = a.customerNumber /\ apiKey = a.apiKey
    /\ sessionID = ""
    /\ records = NilSlice
    /\ posts = 0
    /\ calls = 0
    /\ last = NoCall

\* one invocation of operation op that ends as outcome o
Invoke(op, in, reply, o) ==
    /\ calls < MaxCalls
    /\ sessionID' = o.sessionID
    /\ records' = o.records
    /\ posts' = posts + o.posts
    /\ calls' = calls + 1
    /\ last' = [op |-> op, in |-> in,
                pre |-> [sessionID |-> sessionID, records |-> records, posts |-> posts],
                req |-> o.req, reply |-> IF o.posts = 0 THEN NoReply ELSE reply,
                result |-> o.result, err |-> o.err, ret |-> o.ret]
    /\ UNCHANGED <<customerNumber, apiKey>>

Login(apiPassword, reply) ==
    Invoke("Login", [NoInput EXCEPT !.apiPassword = apiPassword], reply,
           LoginCall(sessionID, records, customerNumber, apiKey, apiPassword, reply))

Logout(reply) ==
    Invoke("Logout", NoInput, reply,
           LogoutCall(sessionID, records, customerNumber, apiKey, reply))

GetRecords(domainname, reply) ==
    Invoke("GetRecords", [NoInput EXCEPT !.domainname = domainname], reply,
           GetRecordsCall(sessionID, records, customerNumber, apiKey, domainname, reply))

UpdateRecords(domainname, submitted, reply) ==
    Invoke("UpdateRecords", [NoInput EXCEPT !.domainname = domainname, !.records = submitted],
           reply,
           UpdateRecordsCall(sessionID, records, customerNumber, apiKey, domainname,
                             submitted, reply))

Next ==
    \E reply \in Replies :
        \/ \E apiPassword \in Passwords : Login(apiPassword, reply)
        \/ Logout(reply)
        \/ \E domainname \in Domains : GetRecords(domainname, reply)
        \/ \E domainname \in Domains, submitted \in Submissions :
               UpdateRecords(domainname, submitted, reply)

Spec == Init /\ [][Next]_vars

(***************************************************************************)
(* Properties.  They read the last operation: what the server sent (the    *)
(* reply as JSON, not as decoded by the client), what the client sent,     *)
(* what the caller got back, and the client's fields before and after.     *)
(***************************************************************************)
Ops == {"Login", "Logout", "GetRecords", "UpdateRecords"}
ActionOf(op) ==
    CASE op = "Login" -> "login"
      [] op = "Logout" -> "logout"
      [] op = "GetRecords" -> "infoDnsRecords"
      [] op = "UpdateRecords" -> "updateDnsRecords"
Posted == posts - last.pre.posts
\* the server answered with a JSON object
Answered == Posted > 0 /\ last.reply.kind = "body" /\ last.reply.body.kind = "object"
Key(o, k) == IF k \in DOMAIN o.fields THEN o.fields[k] ELSE JAbsent
ReplyCode == Key(last.reply.body, "statuscode")
ReplyData == Key(last.reply.body, "responsedata")
\* a well-formed envelope: the code, when there is one, is a number
WellFormed == Answered /\ ReplyCode.kind \in {"number", "absent"}
Success == Answered /\ ReplyCode = JNum(2000)
Unchanged == sessionID = last.pre.sessionID /\ records = last.pre.records

\* C1: Logout, GetRecords and UpdateRecords invoked with an empty session
\* token return the unauthenticated error without any POST; only Login
\* makes a POST with an empty token.
C1_NoSessionNoPost ==
    /\ (last.op \in Ops \ {"Login"} /\ last.pre.sessionID = "")
          => last.result = "error" /\ last.err = ErrNoSession /\ Posted = 0
    /\ (last.op \in Ops /\ last.pre.sessionID = "" /\ Posted > 0) => last.op = "Login"
\* an operation refused after a Login and a Logout that both reached the server
C1_Witness ==
    /\ last.op = "UpdateRecords" /\ last.pre.sessionID = ""
    /\ calls = 3 /\ posts = 2 /\ last.err = ErrNoSession

\* C2: a Login answered with statuscode 2000 and a responsedata object whose
\* apisessionid is a string returns no error and leaves the session token
\* equal to that string, whatever the token was before.
C2_LoginStoresToken ==
    (last.op = "Login" /\ Success /\ ReplyData.kind = "object"
        /\ Key(ReplyData, "apisessionid").kind = "string")
      => last.result = "ok" /\ sessionID = Key(ReplyData, "apisessionid").s
\* a Login that replaces one token by another
C2_Witness ==
    /\ last.op = "Login" /\ last.result = "ok"
    /\ last.pre.sessionID = "thisisasessionid" /\ sessionID = "othersessionid"

\* C3: a Logout with a non-empty token answered with statuscode 2000 returns
\* no error and empties the token, whatever the responsedata is.
C3_LogoutClears ==
    (last.op = "Logout" /\ last.pre.sessionID # "" /\ Success)
      => last.result = "ok" /\ sessionID = ""
\* a Logout answered without any responsedata
C3_Witness ==
    /\ last.op = "Logout" /\ last.pre.sessionID # "" /\ Success
    /\ ReplyData = JAbsent /\ sessionID = ""

\* C4: an operation that returns an error leaves the session token and the
\* cached records as they were.
C4_ErrorKeepsState ==
    (last.op \in Ops /\ last.result = "error") => Unchanged
\* a GetRecords that fails to decode its payload on a client holding a token
\* and cached records
C4_Witness ==
    /\ last.op = "GetRecords" /\ last.result = "error" /\ last.err = ErrDecode
    /\ Success /\ last.pre.sessionID # "" /\ Len(last.pre.records.elems) > 0

\* C5: on a well-formed envelope an operation succeeds only if statuscode is
\* 2000; any other code, or none, gives the API error with the action name
\* and the envelope's long message, and the responsedata is not used.
C5_Only2000 ==
    (last.op \in Ops /\ WellFormed) =>
        /\ last.result = "ok" => ReplyCode = JNum(2000)
        /\ ReplyCode # JNum(2000) =>
              /\ last.result = "error"
              /\ last.err = ErrAPI(ActionOf(last.op), Key(last.reply.body, "longmessage").s)
              /\ Unchanged
\* a Login refused on code 2001 although the status text is "success" and
\* the payload holds a session ID
C5_Witness ==
    /\ last.op = "Login" /\ WellFormed /\ ReplyCode = JNum(2001)
    /\ Key(last.reply.body, "status") = JStr("success")
    /\ Key(ReplyData, "apisessionid").kind = "string"
    /\ last.err = ErrAPI("login", "off by one")

\* the reply of a successful Login named no session ID: the key is absent or
\* null, or it is the empty string
NoTokenGiven ==
    /\ Success /\ ReplyData.kind = "object"
    /\ \/ Key(ReplyData, "apisessionid").kind \in {"absent", "null"}
       \/ Key(ReplyData, "apisessionid") = JStr("")

\* C6 as stated: the token goes from empty to non-empty only in a Login that
\* returns no error, and from non-empty to empty only in a Logout that
\* returns no error; GetRecords and UpdateRecords never change it, and no
\* Login empties it.
C6_Original ==
    /\ (last.pre.sessionID = "" /\ sessionID # "")
          => last.op = "Login" /\ last.result = "ok"
    /\ (last.pre.sessionID # "" /\ sessionID = "")
          => last.op = "Logout" /\ last.result = "ok"
    /\ last.op \in {"GetRecords", "UpdateRecords"} => sessionID = last.pre.sessionID
    /\ last.op = "Login" => ~(last.pre.sessionID # "" /\ sessionID = "")

\* C6 amended: the token goes from empty to non-empty only in a Login that
\* returns no error; it goes from non-empty to empty only in a Logout that
\* returns no error, or in a Login that returns no error and whose reply
\* named no session ID; GetRecords and UpdateRecords never change it, and
\* no Login that returns an error changes it.
C6_TokenTransitions ==
    /\ (last.pre.sessionID = "" /\ sessionID # "")
          => last.op = "Login" /\ last.result = "ok"
    /\ (last.pre.sessionID # "" /\ sessionID = "")
          => /\ last.result = "ok"
             /\ last.op = "Logout" \/ (last.op = "Login" /\ NoTokenGiven)
    /\ last.op \in {"GetRecords", "UpdateRecords"} => sessionID = last.pre.sessionID
    /\ (last.op = "Login" /\ last.result # "ok") => sessionID = last.pre.sessionID
\* a Login on an authenticated client whose reply holds an empty object
C6_Witness ==
    /\ last.op = "Login" /\ last.result = "ok" /\ last.pre.sessionID # ""
    /\ sessionID = "" /\ ReplyData = JObj(EmptyMap)

\* the JSON object of record r: its seven keys, each with r's value
IsRecordJSON(v, r) ==
    /\ v.kind = "object"
    /\ DOMAIN v.fields =
          {"id", "hostname", "type", "priority", "destination", "deleterecord", "state"}
    /\ v.fields["id"] = JStr(r.ID) /\ v.fields["hostname"] = JStr(r.Hostname)
    /\ v.fields["type"] = JStr(r.Type) /\ v.fields["priority"] = JStr(r.Priority)
    /\ v.fields["destination"] = JStr(r.Destination)
    /\ v.fields["deleterecord"] = JBool(r.DeleteRecord)
    /\ v.fields["state"] = JStr(r.State)
\* v holds exactly the records of the slice sl, in its order (null for nil)
HoldsRecords(v, sl) ==
    \/ v.kind = "null" /\ sl = NilSlice
    \/ /\ v.kind = "array" /\ ~sl.isNil /\ Len(v.items) = Len(sl.elems)
       /\ \A i \in 1..Len(sl.elems) : IsRecordJSON(v.items[i], sl.elems[i])
OwnKeys(op) ==
    CASE op = "Login" -> {"apipassword"}
      [] op = "Logout" -> {}
      [] op = "GetRecords" -> {"domainname"}
      [] op = "UpdateRecords" -> {"domainname", "dnsrecordset"}

\* C7: the param of every request sent holds the operation's own parameters,
\* customernumber and apikey with the client's values, and apisessionid
\* exactly when the token is non-empty at dispatch, with the token as its
\* value; it holds no other key.
C7_RequestParams ==
    (last.op \in Ops /\ Posted > 0) =>
        LET param == last.req.param
            sid == last.pre.sessionID
        IN  /\ last.req.action = ActionOf(last.op)
            /\ DOMAIN param = OwnKeys(last.op) \cup {"customernumber", "apikey"}
                                \cup (IF sid # "" THEN {"apisessionid"} ELSE {})
            /\ param["customernumber"] = JNum(customerNumber)
            /\ param["apikey"] = JStr(apiKey)
            /\ sid # "" => param["apisessionid"] = JStr(sid)
            /\ last.op = "Login" => param["apipassword"] = JStr(last.in.apiPassword)
            /\ last.op \in {"GetRecords", "UpdateRecords"}
                  => param["domainname"] = JStr(last.in.domainname)
            /\ last.op = "UpdateRecords" =>
                  /\ param["dnsrecordset"].kind = "object"
                  /\ DOMAIN param["dnsrecordset"].fields = {"dnsrecords"}
                  /\ HoldsRecords(param["dnsrecordset"].fields["dnsrecords"], last.in.records)
\* an UpdateRecords of an authenticated client that sent two records
C7_Witness ==
    /\ last.op = "UpdateRecords" /\ Posted = 1
    /\ last.in.records = Slice(<<DeleteA, NewTXT>>)
    /\ "apisessionid" \in DOMAIN last.req.param

\* the text of key k of a record of the reply ("" when it is absent or null)
Text(item, k) == IF Key(item, k).kind = "string" THEN Key(item, k).s ELSE ""
Flag(item, k) == IF Key(item, k).kind = "bool" THEN Key(item, k).b ELSE FALSE
\* sl is the array v of the reply: same length, order and field values
SameRecords(sl, v) ==
    /\ Len(sl.elems) = Len(v.items)
    /\ \A i \in 1..Len(v.items) :
          sl.elems[i] = Record(Text(v.items[i], "id"), Text(v.items[i], "hostname"),
                               Text(v.items[i], "type"), Text(v.items[i], "priority"),
                               Text(v.items[i], "destination"),
                               Flag(v.items[i], "deleterecord"), Text(v.items[i], "state"))

\* C8: a GetRecords or UpdateRecords that returns no error returns exactly
\* the dnsrecords of the reply (no records when the reply has none), and the
\* cached records are then that same sequence.
C8_ReturnsServerRecords ==
    (last.op \in {"GetRecords", "UpdateRecords"} /\ last.result = "ok") =>
        /\ Success /\ ReplyData.kind = "object"
        /\ IF Key(ReplyData, "dnsrecords").kind = "array"
           THEN SameRecords(last.ret, Key(ReplyData, "dnsrecords"))
           ELSE last.ret.elems = <<>>
        /\ records = last.ret
\* an UpdateRecords whose reply of two records replaces other cached records
\* and differs from the records submitted
C8_Witness ==
    /\ last.op = "UpdateRecords" /\ last.result = "ok"
    /\ Len(last.pre.records.elems) = 1 /\ Len(last.in.records.elems) = 1
    /\ Len(last.ret.elems) = 2 /\ last.ret.elems[1] # last.ret.elems[2]
    /\ records = last.ret

\* C9: a reply with statuscode 2000 whose responsedata is absent or null makes
\* Login, GetRecords and UpdateRecords return a decoding error, and no
\* operation ends in a crash.
C9_ErrorsReturned ==
    /\ last.result # "panic"
    /\ (last.op \in {"Login", "GetRecords", "UpdateRecords"} /\ Success
          /\ ReplyData.kind \in {"absent", "null"})
        => last.result = "error" /\ last.err = ErrDecode

\* C10: an operation makes no POST when the session precondition fails and
\* exactly one when it passes, however it ends; the POSTs never outnumber
\* the operations invoked.
C10_OnePost ==
    /\ last.op \in Ops =>
          Posted = (IF last.op = "Login" \/ last.pre.sessionID # "" THEN 1 ELSE 0)
    /\ posts <= calls
\* three operations that each failed after their one POST
C10_Witness ==
    /\ calls = 3 /\ posts = 3 /\ last.result = "error" /\ last.err = ErrPost
====
